---- MODULE Spec2Model ----
(***************************************************************************)
(* The case-selection job engine of elsa-data: JobsService (startSelectJob,*)
(* cancelInProgressSelectJob, doSelectJobWork, endSelectJob,               *)
(* getPreviousJobs) over the job::SelectJob and release::Release records.  *)
(*                                                                         *)
(* Every edgeDbClient.transaction(...) body is one atomic action: EdgeDB   *)
(* transactions are serializable and the client re-executes a transaction  *)
(* that hits a serialization conflict, so a committed transaction acts on  *)
(* one snapshot.  Queries run outside a transaction are their own steps.   *)
(* An execution of a transaction callback that is rolled back is a step of *)
(* its own where it writes to something outside the database.              *)
(***************************************************************************)
EXTENDS Integers, Sequences, FiniteSets, TLC

\* ---------------------------------------------------------------- bounds
\* the number of Job records ever inserted
MaxJobs == 2

\* the last second of the clock
MaxNow == 11

\* the number of batch transactions a conflict rolls back
MaxConflicts == 1

\* ------------------------------------------------ the catalogue (static)
Releases == {"R1", "R2", "R3", "R10"}

\* the releases beforeEachCommon inserts
InitialReleases == {"R1"}

\* permission::User.releaseParticipant@role one_of constraint
Roles == {"DataOwner", "Member", "PI"}

\* release::Release.datasetUris: R1 draws from one dataset, R2 from none, R3
\* from a dataset of one case, R10 from a dataset of ten cases
DatasetUris(r) ==
  CASE r = "R1"  -> {"urn:10g"}
    [] r = "R3"  -> {"urn:one"}
    [] r = "R10" -> {"urn:ten"}
    [] OTHER     -> {}

\* the ten cases of the dataset urn:ten, each with its one patient
TenPatient ==
  [t1 |-> "u1", t2 |-> "u2", t3 |-> "u3", t4 |-> "u4", t5 |-> "u5",
   t6 |-> "u6", t7 |-> "u7", t8 |-> "u8", t9 |-> "u9", t10 |-> "u10"]

\* the patients of urn:ten, each with its one specimen
TenSpecimen ==
  [u1 |-> "v1", u2 |-> "v2", u3 |-> "v3", u4 |-> "v4", u5 |-> "v5",
   u6 |-> "v6", u7 |-> "v7", u8 |-> "v8", u9 |-> "v9", u10 |-> "v10"]

\* dataset::Dataset.cases
DatasetCases(uri) ==
  CASE uri = "urn:10g" -> {"c1", "c2"}
    [] uri = "urn:one" -> {"c3"}
    [] uri = "urn:ten" -> DOMAIN TenPatient
    [] OTHER           -> {}

\* dataset::DatasetCase.patients
CasePatients(c) ==
  CASE c = "c1" -> {"p1", "p2"}
    [] c = "c2" -> {"p3"}
    [] c = "c3" -> {"p4"}
    [] c \in DOMAIN TenPatient -> {TenPatient[c]}
    [] OTHER    -> {}

\* dataset::DatasetPatient.specimens
PatientSpecimens(p) ==
  CASE p = "p1" -> {"s1"}
    [] p = "p2" -> {"s2"}
    [] p = "p3" -> {"s3"}
    [] p = "p4" -> {"s4"}
    [] p \in DOMAIN TenSpecimen -> {TenSpecimen[p]}
    [] OTHER    -> {}

Cases == UNION {DatasetCases(u) : u \in UNION {DatasetUris(r) : r \in Releases}}

Patients == UNION {CasePatients(c) : c \in Cases}

Specimens == UNION {PatientSpecimens(p) : p \in Patients}

\* the specimens of all the patients of a case
CaseSpecimens(c) == UNION {PatientSpecimens(p) : p \in CasePatients(c)}

\* getReleaseInfo(...).releaseAllDatasetCasesQuery: the cases of the datasets
\* whose uri is in the release's datasetUris
ReleaseAllDatasetCasesQuery(r) == UNION {DatasetCases(u) : u \in DatasetUris(r)}

JobIds == 1..MaxJobs

\* ------------------------------------------------------------------ state
VARIABLES
  jobs,                   \* sequence of job::SelectJob records, the index is the job id
  releaseSelected,        \* release::Release.selectedSpecimens per release
  selectable,             \* the specimens SelectService.isSelectable accepts
  workers,                \* per caller of doSelectJobWork: position and locals
  casesAlreadyProcessed,  \* history: per job, the cases claimed and evaluated by committed batches
  response,               \* what the step just taken returned or threw to its caller
                          \* (NoResponse after a step inside a call)
  now,                    \* new Date(), in whole seconds
  faulted,                \* history: the jobs a batch of which isSelectable has failed
  conflicts               \* history: the batch transactions rolled back by a conflict

vars == <<jobs, releaseSelected, selectable, workers, casesAlreadyProcessed, response,
          now, faulted, conflicts>>

TerminalStatus == {"succeeded", "failed", "cancelled"}

JobStatus == {"running"} \cup TerminalStatus

\* a completed call: the method, and the error thrown or the value returned
NoResponse == [op |-> "none", error |-> "none", ids |-> {}, ret |-> 0]

\* the method op returned normally
Returned(op) == [NoResponse EXCEPT !.op = op]

\* the method op threw error
Threw(op, error) == [NoResponse EXCEPT !.op = op, !.error = error]

\* the locals of doSelectJobWork; removedCount is history: the cases the
\* committed transactions of the call took off the queue
IdleWorker ==
  [pc |-> "idle", jobId |-> 0, startTime |-> 0, processedCount |-> 0, removedCount |-> 0]

ExistingJobIds == 1..Len(jobs)

\* the release::Release objects
ReleaseIds == DOMAIN releaseSelected

\* release::Release.runningJob: the jobs of the release whose status is running
RunningJob(r) ==
  {j \in ExistingJobIds : jobs[j].forRelease = r /\ jobs[j].status = "running"}

\* mutant: only the role Member is turned away
NotAuthorisedToControlJobMember(userRole) == userRole = "Member"

\* if (userRole != "DataOwner") throw new NotAuthorisedToControlJob(...)
NotAuthorisedToControlJob(userRole) == userRole # "DataOwner"

\* ----------------------------------------------------- startGenericJob
\* mutant: the check finds every job of the release, whatever its status
OldJobAnyStatus(r) ==
  {j \in ExistingJobIds : jobs[j].forRelease = r}

\* mutant: the check for a running job finds nothing
OldJobNone(r) == {}

\* mutant: the filter looks for the jobs that have ended
OldJobNotRunning(r) ==
  {j \in ExistingJobIds : jobs[j].status # "running" /\ jobs[j].forRelease = r}

\* the oldJob query: ids of the running jobs of the release
OldJob(r) ==
  {j \in ExistingJobIds : jobs[j].status = "running" /\ jobs[j].forRelease = r}

\* mutant: the count is not taken from the snapshot that fills the queue
NewSelectJobNoCount(r) ==
  [forRelease            |-> r,
   status                |-> "running",
   requestedCancellation |-> FALSE,
   percentDone           |-> 0,
   messages              |-> <<"Created">>,
   ended                 |-> FALSE,
   initialTodoCount      |-> 0,
   todoQueue             |-> UNION {DatasetCases(u) : u \in DatasetUris(r)},
   selectedSpecimens     |-> {}]

\* the insert of startSelectJob
\* mutant: the job is created with its ended timestamp already set
NewSelectJobEnded(r) ==
  [forRelease            |-> r,
   status                |-> "running",
   requestedCancellation |-> FALSE,
   percentDone           |-> 0,
   messages              |-> <<"Created">>,
   ended                 |-> TRUE,
   initialTodoCount      |-> Cardinality(ReleaseAllDatasetCasesQuery(r)),
   todoQueue             |-> ReleaseAllDatasetCasesQuery(r),
   selectedSpecimens     |-> {}]

NewSelectJob(r) ==
  [forRelease            |-> r,
   status                |-> "running",
   requestedCancellation |-> FALSE,
   percentDone           |-> 0,
   messages              |-> <<"Created">>,
   ended                 |-> FALSE,
   initialTodoCount      |-> Cardinality(ReleaseAllDatasetCasesQuery(r)),
   todoQueue             |-> ReleaseAllDatasetCasesQuery(r),
   selectedSpecimens     |-> {}]

StartSelectJob(userRole, r) ==
  /\ UNCHANGED <<releaseSelected, selectable, workers, now, faulted, conflicts>>
  /\ IF NotAuthorisedToControlJob(userRole)
       THEN /\ response' = Threw("startSelectJob", "NotAuthorisedToControlJob")
            /\ UNCHANGED <<jobs, casesAlreadyProcessed>>
       ELSE IF OldJob(r) # {}
         THEN /\ response' = [Threw("startSelectJob", "OnlyOneRunningJob") EXCEPT !.ids = OldJob(r)]
              /\ UNCHANGED <<jobs, casesAlreadyProcessed>>
         ELSE /\ Len(jobs) < MaxJobs
              /\ jobs' = Append(jobs, NewSelectJob(r))
              /\ casesAlreadyProcessed' = Append(casesAlreadyProcessed, 0)
              /\ response' = Returned("startSelectJob")

\* ------------------------------------------- cancelInProgressSelectJob
\* mutant: the filter does not look at the status
CurrentJobAnyStatus(r) ==
  {j \in ExistingJobIds : jobs[j].forRelease = r}

\* the currentJob query before assert_single
CurrentJob(r) ==
  {j \in ExistingJobIds : jobs[j].status = "running" /\ jobs[j].forRelease = r}

\* mutant: the flag is flipped
SetRequestedCancellationFlip(job) ==
  [job EXCEPT !.requestedCancellation = ~job.requestedCancellation]

\* mutant: the update writes the status too
SetRequestedCancellationAndStatus(job) ==
  [job EXCEPT !.requestedCancellation = TRUE, !.status = "cancelled"]

\* set: { requestedCancellation: true }
SetRequestedCancellation(job) == [job EXCEPT !.requestedCancellation = TRUE]

CancelInProgressSelectJob(userRole, r) ==
  /\ UNCHANGED <<releaseSelected, selectable, workers, casesAlreadyProcessed,
                 now, faulted, conflicts>>
  /\ IF NotAuthorisedToControlJob(userRole)
       THEN /\ response' = Threw("cancelInProgressSelectJob", "NotAuthorisedToControlJob")
            /\ UNCHANGED jobs
       ELSE IF Cardinality(CurrentJob(r)) > 1
         THEN /\ response' = Threw("cancelInProgressSelectJob", "CardinalityViolation")
              /\ UNCHANGED jobs
         ELSE IF CurrentJob(r) = {}
           THEN /\ response' = Threw("cancelInProgressSelectJob", "NoJobYet")
                /\ UNCHANGED jobs
           ELSE LET j == CHOOSE x \in CurrentJob(r) : TRUE IN
                /\ jobs' = [jobs EXCEPT ![j] = SetRequestedCancellation(@)]
                /\ response' = Returned("cancelInProgressSelectJob")

\* ------------------------------------------------------ doSelectJobWork
\* mutant: the select from the queue has no limit
CasesFromQueueNoLimit(todoQueue) ==
  IF todoQueue = {} THEN {} ELSE {todoQueue}

\* the possible results of the select from a queue that is not empty:
\* limit 1 with no order, any one case
CasesFromQueue(todoQueue) == {{c} : c \in todoQueue}

\* the specimens of the claimed cases for which isSelectable answers true
\* mutant: every specimen of the cases is a result, selectable or not
ResultSpecimensUnfiltered(casesFromQueue) ==
  UNION {CaseSpecimens(c) : c \in casesFromQueue}

ResultSpecimens(casesFromQueue) ==
  {s \in UNION {CaseSpecimens(c) : c \in casesFromQueue} : s \in selectable}

\* mutant: the results are assigned, not added
SelectedSpecimensAssign(selected, resultSpecimens) == resultSpecimens

\* selectedSpecimens: { "+=": newResults }
SelectedSpecimensPlus(selected, resultSpecimens) == selected \cup resultSpecimens

\* mutant: the claimed cases stay in the queue
TodoQueueKept(todoQueue, doneCases) == todoQueue

\* todoQueue: { "-=": doneCases }
TodoQueueMinus(todoQueue, doneCases) == todoQueue \ doneCases

\* mutant: the cases of this batch are not counted as done
PercentDoneLagging(initialTodoCount, todoCount, length) ==
  ((initialTodoCount - todoCount) * 9999) \div (100 * initialTodoCount)

\* mutant: the factor is 100, not 99.99
PercentDoneFull(initialTodoCount, todoCount, length) ==
  (((initialTodoCount - todoCount) + length) * 100) \div initialTodoCount

\* cast int16 floor(((initialTodoCount - count(todoQueue)) + length) * 99.99 / initialTodoCount),
\* count(todoQueue) being the queue before the update
PercentDone(initialTodoCount, todoCount, length) ==
  (((initialTodoCount - todoCount) + length) * 9999) \div (100 * initialTodoCount)

\* mutant: without the job the call returns 0 as if the queue were empty
DoSelectJobWorkStartNoCheck(w, jobId, roughlyMaxSeconds) ==
  /\ workers[w].pc = "idle"
  /\ UNCHANGED <<jobs, releaseSelected, selectable, casesAlreadyProcessed,
                 now, faulted, conflicts>>
  /\ IF jobId \notin ExistingJobIds
       THEN /\ response' = Returned("doSelectJobWork")
            /\ UNCHANGED workers
       ELSE /\ workers' = [workers EXCEPT ![w] =
                 [pc |-> "loop", jobId |-> jobId, startTime |-> now,
                  processedCount |-> 0, removedCount |-> 0]]
            /\ response' = NoResponse

\* the select of the job and the throw when it is not there, then the locals;
\* roughlyMaxSeconds is not read anywhere in the method
DoSelectJobWorkStart(w, jobId, roughlyMaxSeconds) ==
  /\ workers[w].pc = "idle"
  /\ UNCHANGED <<jobs, releaseSelected, selectable, casesAlreadyProcessed,
                 now, faulted, conflicts>>
  /\ IF jobId \notin ExistingJobIds
       THEN /\ response' = Threw("doSelectJobWork", "NotASelectJob")
            /\ UNCHANGED workers
       ELSE /\ workers' = [workers EXCEPT ![w] =
                 [pc |-> "loop", jobId |-> jobId, startTime |-> now,
                  processedCount |-> 0, removedCount |-> 0]]
            /\ response' = NoResponse

\* date-fns differenceInSeconds(dateLeft, dateRight): the whole seconds from
\* dateRight to dateLeft
DifferenceInSeconds(dateLeft, dateRight) == dateLeft - dateRight

\* the literal of the while condition
LoopSeconds == 10

\* while (differenceInSeconds(startTime, new Date()) < 10)
WhileCondition(startTime) == DifferenceInSeconds(startTime, now) < LoopSeconds

\* mutant: the update of the specimens is lost, the one of the queue is not
SelectJobAfterBatchQueueOnly(job, casesFromQueue) ==
  [job EXCEPT
     !.todoQueue = TodoQueueMinus(job.todoQueue, casesFromQueue),
     !.percentDone = PercentDone(job.initialTodoCount, Cardinality(job.todoQueue),
                                 Cardinality(casesFromQueue))]

\* mutant: a job asked to cancel is left as it is
SelectJobAfterBatchUnlessCancelled(job, casesFromQueue) ==
  IF job.requestedCancellation THEN job
  ELSE [job EXCEPT
          !.selectedSpecimens =
             SelectedSpecimensPlus(job.selectedSpecimens, ResultSpecimens(casesFromQueue)),
          !.todoQueue = TodoQueueMinus(job.todoQueue, casesFromQueue),
          !.percentDone = PercentDone(job.initialTodoCount, Cardinality(job.todoQueue),
                                      Cardinality(casesFromQueue))]

\* the job record after the two updates of a batch that claimed casesFromQueue
SelectJobAfterBatch(job, casesFromQueue) ==
  [job EXCEPT
     !.selectedSpecimens =
        SelectedSpecimensPlus(job.selectedSpecimens, ResultSpecimens(casesFromQueue)),
     !.todoQueue = TodoQueueMinus(job.todoQueue, casesFromQueue),
     !.percentDone = PercentDone(job.initialTodoCount, Cardinality(job.todoQueue),
                                 Cardinality(casesFromQueue))]

\* mutant: the batch adds its results to the release as well
DoSelectJobWorkBatchIntoRelease(w) ==
  /\ workers[w].pc = "loop"
  /\ WhileCondition(workers[w].startTime)
  /\ LET jobId == workers[w].jobId
         job   == jobs[jobId]
     IN
     /\ job.todoQueue # {}
     /\ \E casesFromQueue \in CasesFromQueue(job.todoQueue) :
          LET resultSpecimens == ResultSpecimens(casesFromQueue)
              length          == Cardinality(casesFromQueue)
          IN
          /\ jobs' = [jobs EXCEPT ![jobId] =
               [job EXCEPT
                  !.selectedSpecimens = SelectedSpecimensPlus(job.selectedSpecimens, resultSpecimens),
                  !.todoQueue = TodoQueueMinus(job.todoQueue, casesFromQueue),
                  !.percentDone = PercentDone(job.initialTodoCount, Cardinality(job.todoQueue), length)]]
          /\ releaseSelected' = [releaseSelected EXCEPT ![job.forRelease] = @ \cup resultSpecimens]
          /\ casesAlreadyProcessed' = [casesAlreadyProcessed EXCEPT ![jobId] = @ + length]
          /\ workers' = [workers EXCEPT ![w].processedCount = @ + length,
                                        ![w].removedCount = @ + length]
  /\ response' = NoResponse
  /\ UNCHANGED <<selectable, now, faulted, conflicts>>

\* one transaction of the while loop that finds a case (limit 1) in the queue
DoSelectJobWorkBatch(w) ==
  /\ workers[w].pc = "loop"
  /\ WhileCondition(workers[w].startTime)
  /\ LET jobId == workers[w].jobId
         job   == jobs[jobId]
     IN
     /\ job.todoQueue # {}
     /\ \E casesFromQueue \in CasesFromQueue(job.todoQueue) :
          LET length == Cardinality(casesFromQueue) IN
          /\ jobs' = [jobs EXCEPT ![jobId] = SelectJobAfterBatch(job, casesFromQueue)]
          /\ casesAlreadyProcessed' =
               [casesAlreadyProcessed EXCEPT ![jobId] =
                  @ + length]
          /\ workers' = [workers EXCEPT ![w].processedCount = @ + length,
                                        ![w].removedCount = @ + length]
  /\ response' = NoResponse
  /\ UNCHANGED <<releaseSelected, selectable, now, faulted, conflicts>>

\* one execution of the transaction callback that claims a case and runs to
\* its last statements, processedCount += casesFromQueue.length among them, and
\* whose commit fails on a serialization conflict: the database is as before,
\* the local is not, and the client runs the callback again
DoSelectJobWorkBatchConflict(w) ==
  /\ workers[w].pc = "loop"
  /\ WhileCondition(workers[w].startTime)
  /\ conflicts < MaxConflicts
  /\ \E casesFromQueue \in CasesFromQueue(jobs[workers[w].jobId].todoQueue) :
       LET length == Cardinality(casesFromQueue)
       IN workers' = [workers EXCEPT ![w].processedCount = @ + length]
  /\ conflicts' = conflicts + 1
  /\ response' = NoResponse
  /\ UNCHANGED <<jobs, releaseSelected, selectable, casesAlreadyProcessed, now, faulted>>

\* mutant: the update runs for an empty batch too, and on a job created with
\* no cases the division by initialTodoCount fails the call
DoSelectJobWorkReturnEmptyUpdate(w) ==
  /\ workers[w].pc = "loop"
  /\ \/ ~WhileCondition(workers[w].startTime)
     \/ jobs[workers[w].jobId].todoQueue = {}
  /\ response' = IF jobs[workers[w].jobId].initialTodoCount = 0
                   THEN Threw("doSelectJobWork", "division by zero")
                   ELSE [Returned("doSelectJobWork") EXCEPT !.ret = workers[w].processedCount]
  /\ workers' = [workers EXCEPT ![w] = IdleWorker]
  /\ UNCHANGED <<jobs, releaseSelected, selectable, casesAlreadyProcessed,
                 now, faulted, conflicts>>

\* mutant: c === 0 does not break out of the loop
DoSelectJobWorkNoBreak(w) ==
  /\ workers[w].pc = "loop"
  /\ \/ ~WhileCondition(workers[w].startTime)
     \/ jobs[workers[w].jobId].todoQueue = {}
  /\ response' = NoResponse
  /\ UNCHANGED <<jobs, releaseSelected, selectable, workers, casesAlreadyProcessed,
                 now, faulted, conflicts>>

\* the end of the loop, by the while condition or by the transaction that
\* finds the queue empty (c === 0, break), and return processedCount
DoSelectJobWorkReturn(w) ==
  /\ workers[w].pc = "loop"
  /\ \/ ~WhileCondition(workers[w].startTime)
     \/ jobs[workers[w].jobId].todoQueue = {}
  /\ response' = [Returned("doSelectJobWork") EXCEPT !.ret = workers[w].processedCount]
  /\ workers' = [workers EXCEPT ![w] = IdleWorker]
  /\ UNCHANGED <<jobs, releaseSelected, selectable, casesAlreadyProcessed,
                 now, faulted, conflicts>>

\* mutant: the case isSelectable fails for is counted as done and skipped
DoSelectJobWorkFaultSkipsCase(w) ==
  /\ workers[w].pc = "loop"
  /\ WhileCondition(workers[w].startTime)
  /\ LET jobId == workers[w].jobId
         job   == jobs[jobId]
     IN
     /\ \E cas \in job.todoQueue :
          /\ CaseSpecimens(cas) # {}
          /\ jobs' = [jobs EXCEPT ![jobId] =
               [job EXCEPT
                  !.todoQueue = TodoQueueMinus(job.todoQueue, {cas}),
                  !.percentDone = PercentDone(job.initialTodoCount, Cardinality(job.todoQueue), 1)]]
     /\ casesAlreadyProcessed' = [casesAlreadyProcessed EXCEPT ![jobId] = @ + 1]
     /\ faulted' = faulted \cup {jobId}
  /\ response' = Threw("doSelectJobWork", "EvaluatorFault")
  /\ workers' = [workers EXCEPT ![w] = IdleWorker]
  /\ UNCHANGED <<releaseSelected, selectable, now, conflicts>>

\* mutant: the claimed case has left the queue when isSelectable fails
DoSelectJobWorkFaultNoTransaction(w) ==
  /\ workers[w].pc = "loop"
  /\ WhileCondition(workers[w].startTime)
  /\ LET jobId == workers[w].jobId IN
     /\ \E cas \in jobs[jobId].todoQueue :
          /\ CaseSpecimens(cas) # {}
          /\ jobs' = [jobs EXCEPT ![jobId].todoQueue = @ \ {cas}]
     /\ faulted' = faulted \cup {jobId}
  /\ response' = Threw("doSelectJobWork", "EvaluatorFault")
  /\ workers' = [workers EXCEPT ![w] = IdleWorker]
  /\ UNCHANGED <<releaseSelected, selectable, casesAlreadyProcessed, now, conflicts>>

\* one transaction of the while loop in which isSelectable rejects for a
\* specimen of the claimed case: the await throws inside the transaction
\* callback, the transaction is rolled back, and nothing catches the error on
\* its way out of doSelectJobWork
DoSelectJobWorkFault(w) ==
  /\ workers[w].pc = "loop"
  /\ WhileCondition(workers[w].startTime)
  /\ LET jobId == workers[w].jobId IN
     /\ \E cas \in jobs[jobId].todoQueue : CaseSpecimens(cas) # {}
     /\ faulted' = faulted \cup {jobId}
  /\ response' = Threw("doSelectJobWork", "EvaluatorFault")
  /\ workers' = [workers EXCEPT ![w] = IdleWorker]
  /\ UNCHANGED <<jobs, releaseSelected, selectable, casesAlreadyProcessed, now, conflicts>>

\* --------------------------------------------------------- endSelectJob
\* mutant: wasSuccessful is looked at before isCancellation
EndStatusSuccessFirst(wasSuccessful, isCancellation) ==
  IF wasSuccessful THEN "succeeded"
  ELSE IF isCancellation THEN "cancelled" ELSE "failed"

\* the status written by the final update
EndStatus(wasSuccessful, isCancellation) ==
  IF isCancellation THEN "cancelled"
  ELSE IF wasSuccessful THEN "succeeded" ELSE "failed"

\* mutant: the results are never moved into the release
ReleaseSelectedNeverMoved(old, jobSelected, wasSuccessful, isCancellation) == old

\* mutant: the move into the release does not look at isCancellation
ReleaseSelectedIgnoringCancel(old, jobSelected, wasSuccessful, isCancellation) ==
  IF wasSuccessful THEN jobSelected ELSE old

\* Release.selectedSpecimens after the transaction
ReleaseSelectedAfterEnd(old, jobSelected, wasSuccessful, isCancellation) ==
  IF ~isCancellation /\ wasSuccessful THEN jobSelected ELSE old

\* mutant: the final update has no filter on the job id
EndSelectJobNoFilter(jobId, wasSuccessful, isCancellation) ==
  /\ UNCHANGED <<selectable, workers, casesAlreadyProcessed, now, faulted, conflicts>>
  /\ response' = Returned("endSelectJob")
  /\ IF jobId \notin ExistingJobIds
       THEN UNCHANGED <<jobs, releaseSelected>>
       ELSE LET job == jobs[jobId] IN
            /\ releaseSelected' = [releaseSelected EXCEPT ![job.forRelease] =
                 ReleaseSelectedAfterEnd(@, job.selectedSpecimens, wasSuccessful, isCancellation)]
            /\ jobs' = [j \in ExistingJobIds |->
                 [jobs[j] EXCEPT !.percentDone = 100,
                                 !.ended = TRUE,
                                 !.status = EndStatus(wasSuccessful, isCancellation)]]

\* the updates filter on the job id: with an unknown id they touch nothing
EndSelectJob(jobId, wasSuccessful, isCancellation) ==
  /\ UNCHANGED <<selectable, workers, casesAlreadyProcessed, now, faulted, conflicts>>
  /\ response' = Returned("endSelectJob")
  /\ IF jobId \notin ExistingJobIds
       THEN UNCHANGED <<jobs, releaseSelected>>
       ELSE LET job == jobs[jobId] IN
            /\ releaseSelected' = [releaseSelected EXCEPT ![job.forRelease] =
                 ReleaseSelectedAfterEnd(@, job.selectedSpecimens, wasSuccessful, isCancellation)]
            /\ jobs' = [jobs EXCEPT ![jobId] =
                 [job EXCEPT !.percentDone = 100,
                             !.ended = TRUE,
                             !.status = EndStatus(wasSuccessful, isCancellation)]]

\* ------------------------------------------------------ getPreviousJobs
\* mutant: the filter does not look at the release
GetPreviousJobsAnyRelease(r) ==
  {j \in ExistingJobIds : jobs[j].status # "running"}

GetPreviousJobs(r) ==
  {j \in ExistingJobIds : jobs[j].status # "running" /\ jobs[j].forRelease = r}

\* ---------------------------------------------------------- the system
\* the answers of SelectService.isSelectable: of the two specimens of case c1 it
\* accepts one and rejects the other, and it accepts none of case c2
EvaluatorChoices == {{"s1"}}

\* beforeEachCommon pre-selects specimens of the release's datasets
PreSelected == [r \in InitialReleases |-> IF r = "R1" THEN {"s2"} ELSE {}]

\* the callers of doSelectJobWork
Workers == {"w1"}

\* the time budgets a caller of doSelectJobWork passes
Budgets == {1, 2}

Init ==
  /\ jobs = <<>>
  /\ casesAlreadyProcessed = <<>>
  /\ selectable \in EvaluatorChoices
  /\ releaseSelected = PreSelected
  /\ workers = [w \in Workers |-> IdleWorker]
  /\ response = NoResponse
  /\ now = 0
  /\ faulted = {}
  /\ conflicts = 0

Next ==
  \/ \E userRole \in Roles, r \in ReleaseIds : StartSelectJob(userRole, r)
  \/ \E userRole \in Roles, r \in ReleaseIds : CancelInProgressSelectJob(userRole, r)
  \/ \E w \in DOMAIN workers, jobId \in JobIds, roughlyMaxSeconds \in Budgets :
       DoSelectJobWorkStart(w, jobId, roughlyMaxSeconds)
  \/ \E w \in DOMAIN workers : DoSelectJobWorkBatch(w)
  \/ \E w \in DOMAIN workers : DoSelectJobWorkReturn(w)
  \/ \E jobId \in JobIds, wasSuccessful \in BOOLEAN, isCancellation \in BOOLEAN :
       EndSelectJob(jobId, wasSuccessful, isCancellation)

\* the operations while the clock is not seen to move, isSelectable answers
\* and no transaction is rolled back
Spec == Init /\ [][Next]_vars

\* a call of doSelectJobWork is a running async function: it goes on with
\* its next transaction
SpecLive ==
  /\ Init /\ [][Next]_vars
  /\ \A w \in Workers : WF_vars(DoSelectJobWorkBatch(w) \/ DoSelectJobWorkReturn(w))

\* the same with an evaluator that can fail
NextFault ==
  \/ Next
  \/ \E w \in DOMAIN workers : DoSelectJobWorkFault(w)

SpecFault == Init /\ [][NextFault]_vars

\* the operations next to other transactions that make a batch's commit fail
NextConflict ==
  \/ Next
  \/ \E w \in DOMAIN workers : DoSelectJobWorkBatchConflict(w)

SpecConflict == Init /\ [][NextConflict]_vars

\* two releases over different datasets and two callers of doSelectJobWork;
\* the evaluator accepts one specimen of each release
InitTwo ==
  /\ jobs = <<>>
  /\ casesAlreadyProcessed = <<>>
  /\ selectable = {"s1", "s4"}
  /\ releaseSelected = [r \in {"R1", "R3"} |-> IF r = "R1" THEN {"s2"} ELSE {}]
  /\ workers = [w \in {"w1", "w2"} |-> IdleWorker]
  /\ response = NoResponse
  /\ now = 0
  /\ faulted = {}
  /\ conflicts = 0

\* the operations as the data owner of both releases calls them, the two
\* callers of doSelectJobWork on any job, also the same one
NextTwo ==
  \/ \E r \in ReleaseIds : StartSelectJob("DataOwner", r)
  \/ \E r \in ReleaseIds : CancelInProgressSelectJob("DataOwner", r)
  \/ \E w \in DOMAIN workers, jobId \in ExistingJobIds, roughlyMaxSeconds \in Budgets :
       DoSelectJobWorkStart(w, jobId, roughlyMaxSeconds)
  \/ \E w \in DOMAIN workers : DoSelectJobWorkBatch(w)
  \/ \E w \in DOMAIN workers : DoSelectJobWorkReturn(w)
  \/ \E jobId \in ExistingJobIds, wasSuccessful \in BOOLEAN, isCancellation \in BOOLEAN :
       EndSelectJob(jobId, wasSuccessful, isCancellation)

SpecTwo == InitTwo /\ [][NextTwo]_vars

\* one release and two callers of doSelectJobWork
InitRace ==
  /\ jobs = <<>>
  /\ casesAlreadyProcessed = <<>>
  /\ selectable \in EvaluatorChoices
  /\ releaseSelected = PreSelected
  /\ workers = [w \in {"w1", "w2"} |-> IdleWorker]
  /\ response = NoResponse
  /\ now = 0
  /\ faulted = {}
  /\ conflicts = 0

\* the two callers work on any job, also both on the same one, and the
\* transaction of one can be rolled back on a conflict with the other's
NextRace ==
  \/ \E r \in ReleaseIds : StartSelectJob("DataOwner", r)
  \/ \E r \in ReleaseIds : CancelInProgressSelectJob("DataOwner", r)
  \/ \E w \in DOMAIN workers, jobId \in ExistingJobIds, roughlyMaxSeconds \in Budgets :
       DoSelectJobWorkStart(w, jobId, roughlyMaxSeconds)
  \/ \E w \in DOMAIN workers : DoSelectJobWorkBatch(w)
  \/ \E w \in DOMAIN workers : DoSelectJobWorkBatchConflict(w)
  \/ \E w \in DOMAIN workers : DoSelectJobWorkReturn(w)
  \/ \E jobId \in ExistingJobIds, wasSuccessful \in BOOLEAN, isCancellation \in BOOLEAN :
       EndSelectJob(jobId, wasSuccessful, isCancellation)

SpecRace == InitRace /\ [][NextRace]_vars

\* next to the release of beforeEachCommon a release whose datasetUris name
\* no dataset, so that its datasets contain no cases
InitEmpty ==
  /\ jobs = <<>>
  /\ casesAlreadyProcessed = <<>>
  /\ selectable \in EvaluatorChoices
  /\ releaseSelected = [r \in {"R1", "R2"} |-> IF r = "R1" THEN {"s2"} ELSE {}]
  /\ workers = [w \in Workers |-> IdleWorker]
  /\ response = NoResponse
  /\ now = 0
  /\ faulted = {}
  /\ conflicts = 0

NextEmpty ==
  \/ \E r \in ReleaseIds : StartSelectJob("DataOwner", r)
  \/ \E r \in ReleaseIds : CancelInProgressSelectJob("DataOwner", r)
  \/ \E w \in DOMAIN workers, jobId \in ExistingJobIds, roughlyMaxSeconds \in Budgets :
       DoSelectJobWorkStart(w, jobId, roughlyMaxSeconds)
  \/ \E w \in DOMAIN workers : DoSelectJobWorkBatch(w)
  \/ \E w \in DOMAIN workers : DoSelectJobWorkReturn(w)
  \/ \E jobId \in ExistingJobIds, wasSuccessful \in BOOLEAN, isCancellation \in BOOLEAN :
       EndSelectJob(jobId, wasSuccessful, isCancellation)

SpecEmpty == InitEmpty /\ [][NextEmpty]_vars

\* a second goes by
Tick ==
  /\ now < MaxNow
  /\ now' = now + 1
  /\ response' = NoResponse
  /\ UNCHANGED <<jobs, releaseSelected, selectable, workers, casesAlreadyProcessed,
                 faulted, conflicts>>

\* a job is started and worked on while the clock runs; nobody ends it
NextTime ==
  \/ \E userRole \in Roles, r \in ReleaseIds : StartSelectJob(userRole, r)
  \/ \E w \in DOMAIN workers, jobId \in JobIds, roughlyMaxSeconds \in Budgets :
       DoSelectJobWorkStart(w, jobId, roughlyMaxSeconds)
  \/ \E w \in DOMAIN workers : DoSelectJobWorkBatch(w)
  \/ \E w \in DOMAIN workers : DoSelectJobWorkReturn(w)
  \/ Tick

SpecTime == Init /\ [][NextTime]_vars

\* a release over the ten-case dataset, nothing selected, every specimen
\* acceptable to the evaluator
InitTen ==
  /\ jobs = <<>>
  /\ casesAlreadyProcessed = <<>>
  /\ selectable = UNION {CaseSpecimens(c) : c \in ReleaseAllDatasetCasesQuery("R10")}
  /\ releaseSelected = [r \in {"R10"} |-> {}]
  /\ workers = [w \in Workers |-> IdleWorker]
  /\ response = NoResponse
  /\ now = 0
  /\ faulted = {}
  /\ conflicts = 0

\* the job of that release is started and worked on; nobody cancels or ends it
NextTen ==
  \/ \E userRole \in Roles, r \in ReleaseIds : StartSelectJob(userRole, r)
  \/ \E w \in DOMAIN workers, jobId \in JobIds, roughlyMaxSeconds \in Budgets :
       DoSelectJobWorkStart(w, jobId, roughlyMaxSeconds)
  \/ \E w \in DOMAIN workers : DoSelectJobWorkBatch(w)
  \/ \E w \in DOMAIN workers : DoSelectJobWorkReturn(w)

SpecTen == InitTen /\ [][NextTen]_vars

TypeOK ==
  /\ Len(jobs) <= MaxJobs
  /\ Len(casesAlreadyProcessed) = Len(jobs)
  /\ \A j \in ExistingJobIds :
       /\ jobs[j].status \in JobStatus
       /\ jobs[j].percentDone \in 0..100

\* ==================================================================
\* Properties
\* ==================================================================

\* C1: in every reachable state each release has at most one job whose
\* status is running
C1_AtMostOneRunningJob ==
  \A r \in ReleaseIds : Cardinality(RunningJob(r)) <= 1

\* a release with a running job next to an earlier, terminal job, just after a
\* second startSelectJob for it was turned away
C1_Witness ==
  \E r \in ReleaseIds :
    /\ Cardinality(RunningJob(r)) = 1
    /\ GetPreviousJobs(r) # {}
    /\ response.op = "startSelectJob"
    /\ response.error = "OnlyOneRunningJob"
    /\ response.ids = RunningJob(r)

\* C2: startSelectJob by a data owner for a release that has a running job
\* throws the only-one-running-job error naming exactly the running job(s),
\* inserts no job and leaves every job record as it was
C2_StartConflict ==
  [][ \A r \in ReleaseIds :
        (/\ response'.op = "startSelectJob"
         /\ RunningJob(r) # {}
         /\ StartSelectJob("DataOwner", r))
        => (/\ response'.op = "startSelectJob"
            /\ response'.error = "OnlyOneRunningJob"
            /\ response'.ids = RunningJob(r)
            /\ jobs' = jobs) ]_vars

\* a conflict reported against a running job that has made progress and has
\* been asked to cancel
C2_Witness ==
  /\ response.op = "startSelectJob"
  /\ response.error = "OnlyOneRunningJob"
  /\ \E j \in response.ids :
       /\ jobs[j].status = "running"
       /\ jobs[j].selectedSpecimens # {}
       /\ jobs[j].requestedCancellation

\* C3: a successful startSelectJob appends exactly one job, for its release:
\* running, percentDone 0, messages <<"Created">>, no cancellation requested,
\* nothing selected, the queue holding every case of the release's datasets
\* and initialTodoCount the size of that queue
C3_StartCreates ==
  [][ \A r \in ReleaseIds :
        (/\ response'.op = "startSelectJob"
         /\ response'.error = "none"
         /\ StartSelectJob("DataOwner", r))
        => (/\ RunningJob(r) = {}
            /\ Len(jobs') = Len(jobs) + 1
            /\ SubSeq(jobs', 1, Len(jobs)) = jobs
            /\ LET new == jobs'[Len(jobs')] IN
               /\ new.forRelease = r
               /\ new.status = "running"
               /\ new.percentDone = 0
               /\ new.messages = <<"Created">>
               /\ new.requestedCancellation = FALSE
               /\ new.ended = FALSE
               /\ new.selectedSpecimens = {}
               /\ new.todoQueue = UNION {DatasetCases(u) : u \in DatasetUris(r)}
               /\ new.initialTodoCount = Cardinality(new.todoQueue)) ]_vars

\* a job just created with a queue of two cases, after an earlier job
C3_Witness ==
  /\ response.op = "startSelectJob"
  /\ response.error = "none"
  /\ Len(jobs) = 2
  /\ jobs[2].status = "running"
  /\ jobs[2].initialTodoCount = 2
  /\ Cardinality(jobs[2].todoQueue) = 2
  /\ jobs[2].percentDone = 0

\* C4: for every running job the size of the queue plus the number of cases
\* processed by committed batches equals initialTodoCount
C4_CountInvariant ==
  \A j \in ExistingJobIds :
    jobs[j].status = "running" =>
      Cardinality(jobs[j].todoQueue) + casesAlreadyProcessed[j] = jobs[j].initialTodoCount

\* a running job half way: one case processed, one still queued
C4_Witness ==
  \E j \in ExistingJobIds :
    /\ jobs[j].status = "running"
    /\ casesAlreadyProcessed[j] = 1
    /\ Cardinality(jobs[j].todoQueue) = 1

\* C5: every case of the snapshot that is no longer in the queue has all the
\* specimens the evaluator accepts in the job's selectedSpecimens
C5_NoPartialCase ==
  \A j \in ExistingJobIds :
    \A c \in ReleaseAllDatasetCasesQuery(jobs[j].forRelease) \ jobs[j].todoQueue :
      {s \in CaseSpecimens(c) : s \in selectable} \subseteq jobs[j].selectedSpecimens

\* both cases have left the queue, one of them with a specimen the evaluator
\* accepts and one it rejects
C5_Witness ==
  \E j \in ExistingJobIds :
    /\ jobs[j].initialTodoCount = 2
    /\ jobs[j].todoQueue = {}
    /\ \E c \in ReleaseAllDatasetCasesQuery(jobs[j].forRelease) :
         /\ CaseSpecimens(c) \cap selectable # {}
         /\ CaseSpecimens(c) \ selectable # {}

\* C6 (as claimed): ending a running job as succeeded, not cancelled, makes the
\* release's selectedSpecimens the union of its previous value and the job's
C6_MergeIsUnion ==
  [][ \A j \in ExistingJobIds :
        (jobs[j].status = "running" /\ EndSelectJob(j, TRUE, FALSE))
        => releaseSelected'[jobs[j].forRelease] =
             releaseSelected[jobs[j].forRelease] \cup jobs[j].selectedSpecimens ]_vars

\* C7: endSelectJob with isCancellation sets the status of the job to cancelled
\* and leaves the selectedSpecimens of every release as they were, whatever
\* wasSuccessful is
C7_CancelKeepsRelease ==
  [][ \A j \in ExistingJobIds, wasSuccessful \in BOOLEAN :
        (response'.op = "endSelectJob" /\ EndSelectJob(j, wasSuccessful, TRUE))
        => (/\ jobs'[j].status = "cancelled"
            /\ releaseSelected' = releaseSelected) ]_vars

\* a job that accumulated specimens its release does not hold has just been
\* ended as cancelled
C7_Witness ==
  /\ response.op = "endSelectJob"
  /\ \E j \in ExistingJobIds :
       /\ jobs[j].status = "cancelled"
       /\ jobs[j].percentDone = 100
       /\ jobs[j].selectedSpecimens # {}
       /\ ~(jobs[j].selectedSpecimens \subseteq releaseSelected[jobs[j].forRelease])

\* C8 (as claimed): endSelectJob on a job that is already terminal changes
\* neither its status, ended or percentDone nor the release's selectedSpecimens
C8_FinalizeOnce ==
  [][ \A j \in ExistingJobIds, wasSuccessful \in BOOLEAN, isCancellation \in BOOLEAN :
        (jobs[j].status \in TerminalStatus /\ EndSelectJob(j, wasSuccessful, isCancellation))
        => (/\ jobs'[j].status = jobs[j].status
            /\ jobs'[j].ended = jobs[j].ended
            /\ jobs'[j].percentDone = jobs[j].percentDone
            /\ releaseSelected' = releaseSelected) ]_vars

\* C9 (as claimed): once a job is terminal no step changes any of its fields
C9_TerminalImmutable ==
  [][ \A j \in ExistingJobIds :
        jobs[j].status \in TerminalStatus => jobs'[j] = jobs[j] ]_vars

\* C10: a running job has percentDone below 100, percentDone is 100 only for a
\* job that endSelectJob has ended, and from one state of a running job to the
\* next percentDone does not decrease
C10_PercentDone ==
  /\ [](\A j \in ExistingJobIds :
          /\ jobs[j].status = "running" => jobs[j].percentDone < 100
          /\ jobs[j].percentDone = 100 => jobs[j].ended)
  /\ [][ \A j \in ExistingJobIds :
           /\ (jobs[j].status = "running" /\ jobs'[j].status = "running")
                => jobs'[j].percentDone >= jobs[j].percentDone
           /\ (jobs'[j].percentDone = 100 /\ jobs[j].percentDone # 100)
                => \E wasSuccessful \in BOOLEAN, isCancellation \in BOOLEAN :
                     EndSelectJob(j, wasSuccessful, isCancellation) ]_vars

\* a running job whose queue is empty: every case processed, percentDone 99,
\* having passed through 49
C10_Witness ==
  \E j \in ExistingJobIds :
    /\ jobs[j].status = "running"
    /\ jobs[j].initialTodoCount = 2
    /\ jobs[j].todoQueue = {}
    /\ jobs[j].percentDone = 99

\* C11: endSelectJob on a running job leaves it with percentDone 100, ended
\* set and the status cancelled when isCancellation, else succeeded when
\* wasSuccessful, else failed; ended as failed and not cancelled, the
\* selectedSpecimens of every release stay as they were
C11_EndOutcome ==
  [][ \A j \in ExistingJobIds, wasSuccessful \in BOOLEAN, isCancellation \in BOOLEAN :
        (/\ response'.op = "endSelectJob"
         /\ jobs[j].status = "running"
         /\ jobs'[j] # jobs[j]
         /\ EndSelectJob(j, wasSuccessful, isCancellation))
        => (/\ jobs'[j].percentDone = 100
            /\ jobs'[j].ended
            /\ jobs'[j].status = (IF isCancellation THEN "cancelled"
                                  ELSE IF wasSuccessful THEN "succeeded" ELSE "failed")
            /\ (~wasSuccessful /\ ~isCancellation) => releaseSelected' = releaseSelected) ]_vars

\* the only job there has been was ended as failed while it held a specimen
\* that its release does not hold
C11_Witness ==
  /\ response.op = "endSelectJob"
  /\ Len(jobs) = 1
  /\ jobs[1].status = "failed"
  /\ jobs[1].percentDone = 100
  /\ jobs[1].ended
  /\ ~(jobs[1].selectedSpecimens \subseteq releaseSelected[jobs[1].forRelease])

\* C12: a batch that takes cases off the queue leaves percentDone at
\* floor(99.99 * (initialTodoCount - size of the queue after the batch) /
\* initialTodoCount); with ten cases that is 49 when five are left and 99
\* when none is left
C12_PercentAfterBatch ==
  /\ [][ \A j \in ExistingJobIds :
           jobs'[j].todoQueue # jobs[j].todoQueue
             => jobs'[j].percentDone =
                  (9999 * (jobs[j].initialTodoCount - Cardinality(jobs'[j].todoQueue)))
                    \div (100 * jobs[j].initialTodoCount) ]_vars
  /\ [](\A j \in ExistingJobIds :
          jobs[j].initialTodoCount = 10 =>
            /\ Cardinality(jobs[j].todoQueue) = 5 => jobs[j].percentDone = 49
            /\ Cardinality(jobs[j].todoQueue) = 0 => jobs[j].percentDone = 99)

\* the tenth of ten cases has just been processed
C12_Witness ==
  \E j \in ExistingJobIds :
    /\ jobs[j].initialTodoCount = 10
    /\ casesAlreadyProcessed[j] = 10
    /\ jobs[j].todoQueue = {}
    /\ jobs[j].percentDone = 99
    /\ \E w \in DOMAIN workers : workers[w].pc = "loop" /\ workers[w].processedCount = 10

\* C13: when isSelectable fails in a batch, no job record, no release and no
\* count of processed cases changes, so the queue, the selected specimens and
\* percentDone of the job are as before and every queued case is still
\* queued, and doSelectJobWork ends by throwing that fault to its caller
C13_FaultCommitsNothing ==
  [][ \A w \in DOMAIN workers :
        (/\ response'.error = "EvaluatorFault"
         /\ DoSelectJobWorkFault(w))
        => (/\ jobs' = jobs
            /\ jobs'[workers[w].jobId].todoQueue # {}
            /\ releaseSelected' = releaseSelected
            /\ casesAlreadyProcessed' = casesAlreadyProcessed
            /\ response'.op = "doSelectJobWork"
            /\ workers'[w].pc = "idle") ]_vars

\* the fault has just been thrown out of a call that had committed one batch
\* before it: that case is processed and the other one is still queued
C13_Witness ==
  /\ response.op = "doSelectJobWork"
  /\ response.error = "EvaluatorFault"
  /\ \E j \in faulted :
       /\ jobs[j].status = "running"
       /\ casesAlreadyProcessed[j] = 1
       /\ Cardinality(jobs[j].todoQueue) = 1
       /\ jobs[j].percentDone = 49

\* C14: with an evaluator that can fail, a running job keeps the count
\* invariant in every state, and once its queue is empty it holds what a run
\* without faults produces: as selectedSpecimens exactly the specimens of the
\* snapshot's cases that the evaluator accepts, every case counted once, and
\* percentDone floor(99.99) (0 for an empty snapshot)
C14_RetryAfterFault ==
  \A j \in ExistingJobIds :
    jobs[j].status = "running" =>
      /\ Cardinality(jobs[j].todoQueue) + casesAlreadyProcessed[j] = jobs[j].initialTodoCount
      /\ jobs[j].todoQueue = {} =>
           /\ jobs[j].selectedSpecimens =
                {s \in UNION {CaseSpecimens(c) : c \in ReleaseAllDatasetCasesQuery(jobs[j].forRelease)} :
                   s \in selectable}
           /\ casesAlreadyProcessed[j] = Cardinality(ReleaseAllDatasetCasesQuery(jobs[j].forRelease))
           /\ jobs[j].percentDone = (IF jobs[j].initialTodoCount = 0 THEN 0 ELSE 99)

\* a job that went through a fault has been drained by a later call, which
\* has just returned
C14_Witness ==
  /\ response.op = "doSelectJobWork"
  /\ response.error = "none"
  /\ \E j \in faulted :
       /\ jobs[j].status = "running"
       /\ jobs[j].initialTodoCount = 2
       /\ jobs[j].todoQueue = {}
       /\ jobs[j].selectedSpecimens = {"s1"}
       /\ jobs[j].percentDone = 99

\* C15 (as claimed): a call of doSelectJobWork starts a batch only while the
\* seconds gone by since it took startTime are fewer than its
\* roughlyMaxSeconds.  The call keeps no trace of that argument, so a call in
\* progress is one made with any of the budgets
C15_TimeBudget ==
  [][ \A w \in DOMAIN workers, roughlyMaxSeconds \in Budgets :
        DoSelectJobWorkBatch(w)
          => DifferenceInSeconds(now, workers[w].startTime) < roughlyMaxSeconds ]_vars

\* C16 (as claimed): the number doSelectJobWork returns is the number of cases
\* that the committed transactions of that call took off the queue, batches
\* that were rolled back and run again included
C16_ReturnsRemoved ==
  [][ \A w \in DOMAIN workers :
        DoSelectJobWorkReturn(w) => response'.ret = workers[w].removedCount ]_vars

\* C17: every call of doSelectJobWork that has entered its loop leaves it;
\* a step of the loop that finds cases in the queue leaves the queue a strict
\* subset of what it was, and a step that finds the queue empty changes no
\* job and returns
C17_Terminates ==
  /\ \A w \in Workers : (workers[w].pc = "loop") ~> (workers[w].pc = "idle")
  /\ [][ \A w \in Workers :
           (workers[w].pc = "loop" /\ workers'[w] # workers[w])
             => LET jobId == workers[w].jobId IN
                IF jobs[jobId].todoQueue # {}
                  THEN /\ jobs'[jobId].todoQueue \subseteq jobs[jobId].todoQueue
                       /\ jobs'[jobId].todoQueue # jobs[jobId].todoQueue
                       /\ workers'[w].pc = "loop"
                  ELSE /\ jobs' = jobs
                       /\ workers'[w].pc = "idle"
                       /\ response'.op = "doSelectJobWork"
                       /\ response'.error = "none" ]_vars

\* a call that took both cases off the queue has returned
C17_Witness ==
  /\ response.op = "doSelectJobWork"
  /\ response.error = "none"
  /\ response.ret = 2
  /\ \A w \in Workers : workers[w].pc = "idle"
  /\ \E j \in ExistingJobIds : jobs[j].initialTodoCount = 2 /\ jobs[j].todoQueue = {}

\* C18: no step of doSelectJobWork changes the selectedSpecimens of a release,
\* and a step that changes them is an endSelectJob with wasSuccessful and
\* without isCancellation
C18_OnlyEndWritesRelease ==
  [][ /\ workers' # workers => releaseSelected' = releaseSelected
      /\ releaseSelected' # releaseSelected
           => /\ response'.op = "endSelectJob"
              /\ \E j \in ExistingJobIds : EndSelectJob(j, TRUE, FALSE) ]_vars

\* a call of doSelectJobWork is in its loop on a running job that has selected
\* a specimen, and the release does not show it
C18_Witness ==
  \E w \in DOMAIN workers :
    /\ workers[w].pc = "loop"
    /\ workers[w].processedCount > 0
    /\ LET job == jobs[workers[w].jobId] IN
       /\ job.status = "running"
       /\ job.selectedSpecimens # {}
       /\ job.selectedSpecimens \cap releaseSelected[job.forRelease] = {}

\* C19: cancelInProgressSelectJob by a data owner for a release with a running
\* job returns with that job's requestedCancellation true, and called when
\* the flag is already true it leaves every job, release and caller as it is
C19_CancelIdempotent ==
  [][ \A r \in ReleaseIds :
        (/\ response'.op = "cancelInProgressSelectJob"
         /\ RunningJob(r) # {}
         /\ CancelInProgressSelectJob("DataOwner", r))
        => /\ response'.error = "none"
           /\ \A j \in RunningJob(r) :
                /\ jobs'[j].requestedCancellation
                /\ jobs[j].requestedCancellation
                     => (/\ jobs' = jobs
                         /\ releaseSelected' = releaseSelected
                         /\ workers' = workers) ]_vars

\* cancelInProgressSelectJob has just returned for the second job of the
\* release, which is running and asked to cancel
C19_Witness ==
  /\ response.op = "cancelInProgressSelectJob"
  /\ response.error = "none"
  /\ Len(jobs) = 2
  /\ jobs[2].status = "running"
  /\ jobs[2].requestedCancellation

\* C20: a step of cancelInProgressSelectJob changes no release and no field
\* of a job other than requestedCancellation, adds no job and moves no call
\* of doSelectJobWork; and a job that is running stops being so only in a
\* step of endSelectJob
C20_CancelFrame ==
  [][ /\ response'.op = "cancelInProgressSelectJob"
           => /\ releaseSelected' = releaseSelected
              /\ workers' = workers
              /\ Len(jobs') = Len(jobs)
              /\ \A j \in ExistingJobIds :
                   jobs'[j] = [jobs[j] EXCEPT !.requestedCancellation = jobs'[j].requestedCancellation]
      /\ \A j \in ExistingJobIds :
           (jobs[j].status = "running" /\ jobs'[j].status # "running")
             => response'.op = "endSelectJob" ]_vars

\* cancelInProgressSelectJob has just returned for a job half way through its
\* queue: the job is running, not ended, at 49 percent, with its messages,
\* its queued case and its selected specimen
C20_Witness ==
  /\ response.op = "cancelInProgressSelectJob"
  /\ response.error = "none"
  /\ \E j \in ExistingJobIds :
       /\ jobs[j].requestedCancellation
       /\ jobs[j].status = "running"
       /\ ~jobs[j].ended
       /\ jobs[j].percentDone = 49
       /\ jobs[j].messages = <<"Created">>
       /\ Cardinality(jobs[j].todoQueue) = 1
       /\ jobs[j].selectedSpecimens # {}

\* C21: cancelInProgressSelectJob by a data owner for a release none of whose
\* jobs is running throws and changes no job and no release; and in no step
\* does requestedCancellation of a terminal job go from false to true
C21_CancelNoRunningJob ==
  [][ /\ \A r \in ReleaseIds :
           (/\ response'.op = "cancelInProgressSelectJob"
            /\ RunningJob(r) = {}
            /\ CancelInProgressSelectJob("DataOwner", r))
           => (/\ response'.error = "NoJobYet"
               /\ jobs' = jobs
               /\ releaseSelected' = releaseSelected)
      /\ \A j \in ExistingJobIds :
           (jobs[j].status \in TerminalStatus /\ ~jobs[j].requestedCancellation)
             => ~jobs'[j].requestedCancellation ]_vars

\* the call has just been turned away for a release whose only job is
\* terminal and was never asked to cancel
C21_Witness ==
  /\ response.op = "cancelInProgressSelectJob"
  /\ response.error = "NoJobYet"
  /\ Len(jobs) = 1
  /\ jobs[1].status \in TerminalStatus
  /\ ~jobs[1].requestedCancellation

\* C22: in no step does requestedCancellation of a job go from true to false
C22_CancellationMonotonic ==
  [][ \A j \in ExistingJobIds :
        jobs[j].requestedCancellation => jobs'[j].requestedCancellation ]_vars

\* a job asked to cancel has since been worked on to the end of its queue and
\* ended, and another job has been started after it: the flag is still true
C22_Witness ==
  /\ Len(jobs) = 2
  /\ jobs[1].requestedCancellation
  /\ jobs[1].status = "cancelled"
  /\ jobs[1].todoQueue = {}
  /\ jobs[2].status = "running"
  /\ ~jobs[2].requestedCancellation

\* C23: getPreviousJobs of a release is exactly the set of its jobs that are
\* cancelled, failed or succeeded; no step removes a job, moves it to another
\* release or takes it out of getPreviousJobs; and a step of endSelectJob
\* leaves todoQueue and selectedSpecimens of every job as they were
C23_PreviousJobs ==
  /\ [](\A r \in Releases :
          GetPreviousJobs(r) =
            {j \in ExistingJobIds : jobs[j].forRelease = r /\ jobs[j].status \in TerminalStatus})
  /\ [][ /\ Len(jobs') >= Len(jobs)
         /\ \A j \in ExistingJobIds :
              /\ jobs'[j].forRelease = jobs[j].forRelease
              /\ j \in GetPreviousJobs(jobs[j].forRelease)
                   => j \in GetPreviousJobs(jobs[j].forRelease)'
              /\ response'.op = "endSelectJob"
                   => /\ jobs'[j].todoQueue = jobs[j].todoQueue
                      /\ jobs'[j].selectedSpecimens = jobs[j].selectedSpecimens ]_vars

\* a job cancelled half way is among the previous jobs of its release, with
\* its queued case and with a selected specimen the release does not hold,
\* while the next job of the release is running
C23_Witness ==
  /\ Len(jobs) = 2
  /\ jobs[2].status = "running"
  /\ GetPreviousJobs("R1") = {1}
  /\ jobs[1].status = "cancelled"
  /\ Cardinality(jobs[1].todoQueue) = 1
  /\ jobs[1].selectedSpecimens # {}
  /\ jobs[1].selectedSpecimens \cap releaseSelected["R1"] = {}

\* C24 (as claimed): a job whose status is succeeded has an empty todoQueue
C24_SucceededEmptyQueue ==
  \A j \in ExistingJobIds :
    jobs[j].status = "succeeded" => jobs[j].todoQueue = {}

\* C25: in every step, for every job, todoQueue stays or loses cases,
\* selectedSpecimens stays or gains specimens, and initialTodoCount stays
C25_Monotone ==
  [][ \A j \in ExistingJobIds :
        /\ jobs'[j].todoQueue \subseteq jobs[j].todoQueue
        /\ jobs[j].selectedSpecimens \subseteq jobs'[j].selectedSpecimens
        /\ jobs'[j].initialTodoCount = jobs[j].initialTodoCount ]_vars

\* a job created with two cases has lost both from its queue and gained a
\* specimen, has been ended, and still records the two
C25_Witness ==
  \E j \in ExistingJobIds :
    /\ jobs[j].status = "succeeded"
    /\ jobs[j].initialTodoCount = 2
    /\ jobs[j].todoQueue = {}
    /\ jobs[j].selectedSpecimens = {"s1"}

\* C26 (as claimed): endSelectJob with the id of no job throws, and changes no
\* job and no release
C26_EndUnknownJob ==
  [][ \A jobId \in JobIds \ ExistingJobIds, wasSuccessful \in BOOLEAN, isCancellation \in BOOLEAN :
        EndSelectJob(jobId, wasSuccessful, isCancellation)
        => (/\ response'.error # "none"
            /\ jobs' = jobs
            /\ releaseSelected' = releaseSelected) ]_vars

\* C27: doSelectJobWork with the id of no job throws before its loop: the
\* caller is not in the loop afterwards, and no job, no release and no count
\* of processed cases has changed
C27_WorkUnknownJob ==
  [][ \A w \in DOMAIN workers, jobId \in JobIds \ ExistingJobIds, roughlyMaxSeconds \in Budgets :
        (/\ response'.op = "doSelectJobWork"
         /\ workers[w].pc = "idle"
         /\ DoSelectJobWorkStart(w, jobId, roughlyMaxSeconds))
        => (/\ response'.error = "NotASelectJob"
            /\ workers' = workers
            /\ jobs' = jobs
            /\ casesAlreadyProcessed' = casesAlreadyProcessed
            /\ releaseSelected' = releaseSelected) ]_vars

\* the call has just been turned away while the one job there is is running
\* with its queue untouched
C27_Witness ==
  /\ response.op = "doSelectJobWork"
  /\ response.error = "NotASelectJob"
  /\ Len(jobs) = 1
  /\ jobs[1].status = "running"
  /\ Cardinality(jobs[1].todoQueue) = 2
  /\ \A w \in DOMAIN workers : workers[w].pc = "idle"

\* C28: endSelectJob with wasSuccessful and without isCancellation on a
\* running job whose queue has been emptied leaves the job succeeded with
\* percentDone 100 and an empty queue, its selectedSpecimens being exactly
\* the specimens of the cases of the release's datasets that the evaluator
\* accepts, all of them in the selectedSpecimens of the release
C28_EndToEnd ==
  [][ \A j \in ExistingJobIds :
        (/\ response'.op = "endSelectJob"
         /\ jobs[j].status = "running"
         /\ jobs[j].todoQueue = {}
         /\ jobs'[j] # jobs[j]
         /\ EndSelectJob(j, TRUE, FALSE))
        => (/\ jobs'[j].status = "succeeded"
            /\ jobs'[j].percentDone = 100
            /\ jobs'[j].todoQueue = {}
            /\ jobs'[j].selectedSpecimens =
                 {s \in UNION {CaseSpecimens(c) : c \in ReleaseAllDatasetCasesQuery(jobs[j].forRelease)} :
                    s \in selectable}
            /\ jobs'[j].selectedSpecimens \subseteq releaseSelected'[jobs[j].forRelease]) ]_vars

\* the first job of the release went through both of its cases and has just
\* been ended as succeeded; the release holds the specimen it selected
C28_Witness ==
  /\ response.op = "endSelectJob"
  /\ Len(jobs) = 1
  /\ casesAlreadyProcessed[1] = 2
  /\ jobs[1].status = "succeeded"
  /\ jobs[1].percentDone = 100
  /\ jobs[1].todoQueue = {}
  /\ jobs[1].selectedSpecimens = {"s1"}
  /\ "s1" \in releaseSelected[jobs[1].forRelease]

C30_MessagesAppended ==
  [][ \A j \in ExistingJobIds :
        /\ Len(jobs'[j].messages) >= Len(jobs[j].messages)
        /\ SubSeq(jobs'[j].messages, 1, Len(jobs[j].messages)) = jobs[j].messages
        /\ jobs'[j].todoQueue # jobs[j].todoQueue
             => Len(jobs'[j].messages) > Len(jobs[j].messages) ]_vars

\* C31: with two releases and two callers of doSelectJobWork, a step of
\* doSelectJobWork on a job changes no other job and no release; a step of
\* cancelInProgressSelectJob for a release changes no job but the running job
\* of that release; and a step of endSelectJob on a job changes no other job
\* and the selectedSpecimens of no release but that job's own
C31_JobIsolation ==
  [][ /\ \A w \in DOMAIN workers :
           (workers'[w] # workers[w] /\ workers[w].pc = "loop")
             => /\ \A j \in ExistingJobIds \ {workers[w].jobId} : jobs'[j] = jobs[j]
                /\ releaseSelected' = releaseSelected
      /\ response'.op = "cancelInProgressSelectJob"
           => \A r \in ReleaseIds :
                CancelInProgressSelectJob("DataOwner", r)
                  => \A j \in ExistingJobIds \ RunningJob(r) : jobs'[j] = jobs[j]
      /\ response'.op = "endSelectJob"
           => \A jobId \in ExistingJobIds, wasSuccessful \in BOOLEAN, isCancellation \in BOOLEAN :
                EndSelectJob(jobId, wasSuccessful, isCancellation)
                  => /\ \A j \in ExistingJobIds \ {jobId} : jobs'[j] = jobs[j]
                     /\ \A r \in ReleaseIds \ {jobs[jobId].forRelease} :
                          releaseSelected'[r] = releaseSelected[r] ]_vars

\* the job of one release has just been ended as succeeded and its specimen
\* moved into that release, while the job of the other release is running
\* with a specimen of its own that its release does not show
C31_Witness ==
  /\ response.op = "endSelectJob"
  /\ Len(jobs) = 2
  /\ jobs[1].forRelease = "R1"
  /\ jobs[1].status = "succeeded"
  /\ releaseSelected["R1"] = {"s1"}
  /\ jobs[2].forRelease = "R3"
  /\ jobs[2].status = "running"
  /\ jobs[2].selectedSpecimens = {"s4"}
  /\ releaseSelected["R3"] = {}

\* C32: startSelectJob and cancelInProgressSelectJob called with a role other
\* than DataOwner throw the not-authorised error, and no job is added or
\* changed, whatever jobs the release has
C32_NotAuthorised ==
  [][ \A userRole \in Roles \ {"DataOwner"}, r \in ReleaseIds :
        /\ (response'.op = "startSelectJob" /\ StartSelectJob(userRole, r))
             => (response'.error = "NotAuthorisedToControlJob" /\ jobs' = jobs)
        /\ (response'.op = "cancelInProgressSelectJob" /\ CancelInProgressSelectJob(userRole, r))
             => (response'.error = "NotAuthorisedToControlJob" /\ jobs' = jobs) ]_vars

\* a caller has just been turned away as not authorised while the release has
\* a running job nobody asked to cancel
C32_Witness ==
  /\ response.error = "NotAuthorisedToControlJob"
  /\ response.op = "cancelInProgressSelectJob"
  /\ \E j \in ExistingJobIds :
       jobs[j].status = "running" /\ ~jobs[j].requestedCancellation

\* C33: a step of the loop of doSelectJobWork that goes on is a batch of the
\* job as it would be with requestedCancellation false, with the flag put
\* back as it was: the queue, the selected specimens, percentDone and the
\* count of the call do not depend on the flag; and the call returns, with
\* its count, exactly when it finds the queue empty, whatever the flag
C33_IgnoresCancellation ==
  [][ \A w \in DOMAIN workers :
        (workers[w].pc = "loop" /\ workers'[w] # workers[w])
          => LET jobId   == workers[w].jobId
                 cleared == [jobs[jobId] EXCEPT !.requestedCancellation = FALSE]
             IN
             IF workers'[w].pc = "loop"
               THEN \E casesFromQueue \in CasesFromQueue(cleared.todoQueue) :
                      /\ jobs'[jobId] =
                           [SelectJobAfterBatch(cleared, casesFromQueue)
                              EXCEPT !.requestedCancellation = jobs[jobId].requestedCancellation]
                      /\ workers'[w].processedCount =
                           workers[w].processedCount + Cardinality(casesFromQueue)
               ELSE /\ cleared.todoQueue = {}
                    /\ response'.ret = workers[w].processedCount
                    /\ jobs' = jobs ]_vars

\* a call on the only job, which has been asked to cancel and is running, has
\* just returned 2: both cases are processed and the specimen is selected
C33_Witness ==
  /\ response.op = "doSelectJobWork"
  /\ response.ret = 2
  /\ Len(jobs) = 1
  /\ jobs[1].requestedCancellation
  /\ jobs[1].status = "running"
  /\ jobs[1].todoQueue = {}
  /\ jobs[1].selectedSpecimens = {"s1"}
  /\ jobs[1].percentDone = 99

\* C34: startSelectJob by a data owner for a release that has terminal jobs
\* and no running one returns, having added one running job whose queue is
\* all the cases of the release's datasets; the jobs there were are as they
\* were, and the previous jobs of the release are still its previous jobs,
\* next to the job now running
C34_StartAfterTerminal ==
  [][ \A r \in ReleaseIds :
        (/\ response'.op = "startSelectJob"
         /\ GetPreviousJobs(r) # {}
         /\ RunningJob(r) = {}
         /\ StartSelectJob("DataOwner", r))
        => (/\ response'.error = "none"
            /\ Len(jobs') = Len(jobs) + 1
            /\ \A j \in ExistingJobIds : jobs'[j] = jobs[j]
            /\ jobs'[Len(jobs')].forRelease = r
            /\ jobs'[Len(jobs')].status = "running"
            /\ jobs'[Len(jobs')].todoQueue = ReleaseAllDatasetCasesQuery(r)
            /\ jobs'[Len(jobs')].selectedSpecimens = {}
            /\ RunningJob(r)' = {Len(jobs')}
            /\ GetPreviousJobs(r)' = GetPreviousJobs(r)) ]_vars

\* a job has just been started for a release whose earlier job was worked to
\* the end and ended: the earlier one is the previous job, with its result,
\* the new one is running with both cases queued
C34_Witness ==
  /\ response.op = "startSelectJob"
  /\ response.error = "none"
  /\ Len(jobs) = 2
  /\ GetPreviousJobs("R1") = {1}
  /\ jobs[1].todoQueue = {}
  /\ jobs[1].selectedSpecimens = {"s1"}
  /\ RunningJob("R1") = {2}
  /\ jobs[2].todoQueue = ReleaseAllDatasetCasesQuery("R1")

\* C35: with two callers of doSelectJobWork that may work on the same job and
\* whose transactions may be rolled back and run again, the queue of every
\* job is a subset of the cases of its release's datasets, every such case
\* that has left the queue has all the specimens the evaluator accepts in the
\* job's selectedSpecimens, and a job with an empty queue has selected
\* exactly the accepted specimens of those cases, as one caller alone yields
C35_TwoCallers ==
  \A j \in ExistingJobIds :
    LET snapshot == ReleaseAllDatasetCasesQuery(jobs[j].forRelease)
        accepted(cs) == {s \in UNION {CaseSpecimens(c) : c \in cs} : s \in selectable}
    IN
    /\ jobs[j].todoQueue \subseteq snapshot
    /\ accepted(snapshot \ jobs[j].todoQueue) \subseteq jobs[j].selectedSpecimens
    /\ jobs[j].todoQueue = {} => jobs[j].selectedSpecimens = accepted(snapshot)

\* both callers are in their loop on the same job and each has taken one of
\* its two cases, one of them after a transaction of its own was rolled back
C35_Witness ==
  /\ workers["w1"].pc = "loop"
  /\ workers["w2"].pc = "loop"
  /\ workers["w1"].jobId = workers["w2"].jobId
  /\ workers["w1"].removedCount = 1
  /\ workers["w2"].removedCount = 1
  /\ workers["w1"].processedCount = 2
  /\ jobs[workers["w1"].jobId].todoQueue = {}
  /\ jobs[workers["w1"].jobId].selectedSpecimens = {"s1"}

\* C36: every specimen in a job's selectedSpecimens is a specimen of a patient
\* of a case of the datasets of the job's release, that case has left the
\* job's todoQueue, and the evaluator accepts the specimen
C36_SelectedAreProcessed ==
  \A j \in ExistingJobIds :
    \A s \in jobs[j].selectedSpecimens :
      \E c \in ReleaseAllDatasetCasesQuery(jobs[j].forRelease) :
        /\ s \in CaseSpecimens(c)
        /\ c \notin jobs[j].todoQueue
        /\ s \in selectable

\* a job has recorded the accepted specimen of its first case while its
\* second case is still queued
C36_Witness ==
  \E j \in ExistingJobIds :
    /\ jobs[j].selectedSpecimens = {"s1"}
    /\ jobs[j].todoQueue = {"c2"}
    /\ jobs[j].status = "running"

\* C37: the ended timestamp of a job is set exactly when its status is
\* succeeded, failed or cancelled
C37_EndedIffTerminal ==
  \A j \in ExistingJobIds : jobs[j].ended <=> jobs[j].status \in TerminalStatus

\* an ended job with its timestamp next to a running one without
C37_Witness ==
  \E j, k \in ExistingJobIds :
    /\ jobs[j].status \in TerminalStatus
    /\ jobs[j].ended
    /\ jobs[k].status = "running"
    /\ ~jobs[k].ended

\* C38: a job of a release whose datasets contain no cases is created with
\* initialTodoCount 0 and an empty queue; a call of doSelectJobWork on it
\* only ever returns, with 0 and no error, and leaves every job as it was; its
\* percentDone is 0 while it runs and 100 once endSelectJob has ended it
C38_EmptyRelease ==
  /\ [](\A j \in ExistingJobIds :
         ReleaseAllDatasetCasesQuery(jobs[j].forRelease) = {} =>
           /\ jobs[j].initialTodoCount = 0
           /\ jobs[j].todoQueue = {}
           /\ jobs[j].percentDone = IF jobs[j].status = "running" THEN 0 ELSE 100)
  /\ [][\A w \in DOMAIN workers :
          (/\ workers[w].pc = "loop"
           /\ jobs[workers[w].jobId].initialTodoCount = 0
           /\ workers'[w] # workers[w]) =>
            /\ workers'[w] = IdleWorker
            /\ response' = Returned("doSelectJobWork")
            /\ response'.ret = 0
            /\ jobs' = jobs
            /\ releaseSelected' = releaseSelected]_vars

\* doSelectJobWork has returned 0 for the only job there is, a running job
\* of the release without cases
C38_Witness ==
  /\ Len(jobs) = 1
  /\ jobs[1].forRelease = "R2"
  /\ jobs[1].initialTodoCount = 0
  /\ jobs[1].status = "running"
  /\ response = Returned("doSelectJobWork")
====
